---- MODULE Spec2Model ----
(***************************************************************************)
(* A model of the flake8 language server (bundled/tool/lsp_server.py):     *)
(* the workspace settings store, the resolution of a document to its       *)
(* settings, the choice of the execution backend, the assembly of the      *)
(* argument vector, the parsing of the tool's output and the publishing    *)
(* of diagnostics on the document events.                                  *)
(*                                                                         *)
(* Strings the code takes apart (diagnostic codes) are sequences of        *)
(* one-character strings; filesystem paths are sequences of segments, the  *)
(* root being the empty sequence.                                          *)
(***************************************************************************)
EXTENDS Integers, Sequences, FiniteSets, TLC

\* ---------------------------------------------------------------------
\* Bounds of the exploration
\* ---------------------------------------------------------------------
\* number of client notifications (initialize, open, save, close) handled
MaxEvents == 3
\* number of open/save pipelines that may be in flight together
MaxInFlight == 2
\* depth of the directories the planning is examined on
MaxPlanDepth == 3

\* ---------------------------------------------------------------------
\* Program constants
\* ---------------------------------------------------------------------
MAX_WORKERS == 5
TOOL_MODULE == "flake8"
TOOL_DISPLAY == "Flake8"
TOOL_ARGS == <<"--format='%(row)d,%(col)d,%(code).1s,%(code)s:%(text)s'">>

\* the interpreter running the server
sys_executable == "/usr/bin/python3"

\* "no key" result of _get_document_key (a path-typed value no path equals)
None == <<"<None>">>

\* ---------------------------------------------------------------------
\* The filesystem the server runs on: real nodes and symbolic links
\* ---------------------------------------------------------------------
Root == <<>>
WsDir == <<"ws">>
SubDir == <<"ws", "sub">>
InDir == <<"ws", "sub", "in">>
TmpX == <<"tmp", "x">>
StdlibRoot == <<"usr", "lib">>
SITE_PACKAGES == "site-packages"

\* real directories
RealDirs ==
    { Root, WsDir, SubDir, InDir, <<"tmp">>, TmpX, <<"usr">>, StdlibRoot }

\* real files
RealFiles ==
    { <<"ws", "g.py">>, <<"ws", "sub", "in", "h.py">>,
      <<"tmp", "x", "file.py">>, <<"usr", "lib", "os.py">> }

\* symbolic links: /lnk -> /ws, /deep -> /ws/sub/in, /ws/l -> /ws/sub/in,
\* /std -> /usr/lib, /pkgs -> /usr/lib/site-packages
SymLinks ==
    (<<"lnk">> :> WsDir) @@ (<<"deep">> :> InDir) @@ (<<"ws", "l">> :> InDir)
    @@ (<<"std">> :> StdlibRoot)
    @@ (<<"pkgs">> :> <<"usr", "lib", SITE_PACKAGES>>)

\* pathlib.Path.parent: the root is its own parent
Parent(p) == IF p = Root THEN Root ELSE SubSeq(p, 1, Len(p) - 1)

\* p is q or lies below q, segment by segment
IsUnder(p, q) == Len(q) <= Len(p) /\ SubSeq(p, 1, Len(q)) = q

\* os.path.realpath: resolve the links of every component, left to right
RECURSIVE realpath(_)
realpath(p) ==
    IF p = Root THEN Root
    ELSE LET q == Append(realpath(Parent(p)), p[Len(p)])
         IN  IF q \in DOMAIN SymLinks THEN realpath(SymLinks[q]) ELSE q

\* utils.normalize_path: the symlink-resolved path (case folding is the
\* identity on a case-sensitive filesystem)
normalize_path(p) == realpath(p)

\* pathlib.Path.exists follows links
exists(p) == realpath(p) \in RealDirs \cup RealFiles

\* utils.is_stdlib_file: under a standard-library root, and no segment of
\* the normalized path is the site-packages directory
is_stdlib_file(p) ==
    LET n == normalize_path(p)
    IN  /\ IsUnder(n, StdlibRoot)
        /\ \A i \in 1..Len(n) : n[i] # SITE_PACKAGES

\* utils.is_current_interpreter
is_current_interpreter(exe) == exe = sys_executable

\* ---------------------------------------------------------------------
\* URIs and documents
\* ---------------------------------------------------------------------
\* uris.from_fs_path / uris.to_fs_path
from_fs_path(p) == [scheme |-> "file", path |-> p]
to_fs_path(u) == u.path

NotebookCellUri == [scheme |-> "vscode-notebook-cell", path |-> <<"ws", "g.py">>]

\* the documents of the client's open/save/close notifications
DocViaRootLink == from_fs_path(<<"lnk", "sub", "in", "h.py">>)
DocOrphan == from_fs_path(<<"tmp", "x", "file.py">>)
DocMissing == from_fs_path(<<"ws", "missing.py">>)
DocStdlib == from_fs_path(<<"usr", "lib", "os.py">>)

Documents ==
    { DocViaRootLink, DocOrphan, DocMissing, DocStdlib, NotebookCellUri }

\* LSP_SERVER.workspace.get_document
get_document(uri) == [uri |-> uri, path |-> to_fs_path(uri)]

\* every document path settings resolution is examined on
ResolvablePaths ==
    { <<"ws", "g.py">>, <<"ws", "sub", "in", "h.py">>,
      <<"lnk", "g.py">>, <<"lnk", "sub", "in", "h.py">>,
      <<"deep", "h.py">>, <<"ws", "l", "h.py">>,
      <<"tmp", "x", "file.py">> }

\* the document path as the string that is placed on the command line
FsPathString ==
    (<<"lnk", "sub", "in", "h.py">> :> "/lnk/sub/in/h.py")
    @@ (<<"tmp", "x", "file.py">> :> "/tmp/x/file.py")
    @@ (<<"ws", "missing.py">> :> "/ws/missing.py")
    @@ (<<"usr", "lib", "os.py">> :> "/usr/lib/os.py")
    @@ (<<"ws", "g.py">> :> "/ws/g.py")

\* ---------------------------------------------------------------------
\* Severity
\* ---------------------------------------------------------------------
\* the member names of lsp.DiagnosticSeverity
DiagnosticSeverity == {"Error", "Warning", "Information", "Hint"}

\* "no value" of dict.get (a string no configured value equals)
NoValue == "<None>"

\* the severity table of _get_global_defaults
DefaultSeverity ==
    (<<"E">> :> "Error") @@ (<<"F">> :> "Error")
    @@ (<<"I">> :> "Information") @@ (<<"W">> :> "Warning")

\* the while loop of _get_severity: the value of the longest configured prefix
RECURSIVE PrefixWalk(_, _)
PrefixWalk(code, severity) ==
    IF code = <<>> THEN NoValue
    ELSE IF code \in DOMAIN severity THEN severity[code]
    ELSE PrefixWalk(SubSeq(code, 1, Len(code) - 1), severity)

_get_severity_dropping_last(code, code_type, severity) ==
    LET walked == IF code = <<>> THEN NoValue
                  ELSE PrefixWalk(SubSeq(code, 1, Len(code) - 1), severity)
        value == IF walked # NoValue THEN walked
                 ELSE IF <<code_type>> \in DOMAIN severity
                      THEN severity[<<code_type>>] ELSE "Error"
    IN  IF value \in DiagnosticSeverity THEN value ELSE "Error"

_get_severity(code, code_type, severity) ==
    LET walked == PrefixWalk(code, severity)
        value == IF walked # NoValue THEN walked
                 ELSE IF <<code_type>> \in DOMAIN severity
                      THEN severity[<<code_type>>] ELSE "Error"
    IN  IF value \in DiagnosticSeverity THEN value ELSE "Error"

\* ---------------------------------------------------------------------
\* The tool's output and its parsing
\* ---------------------------------------------------------------------
F401 == <<"F", "4", "0", "1">>
E225 == <<"E", "2", "2", "5">>

\* an output line: match says whether DIAGNOSTIC_RE matches it, the other
\* fields are the groups of the match.  The format directive prints the
\* first character of the code as the type.
LineF401 ==
    [match |-> TRUE, line |-> 1, column |-> 1, type |-> "F", code |-> F401,
     message |-> "'sys' imported but unused"]
LineE225 ==
    [match |-> TRUE, line |-> 3, column |-> 0, type |-> "E", code |-> E225,
     message |-> "missing whitespace around operator"]
LineNoise ==
    [match |-> FALSE, line |-> 0, column |-> 0, type |-> "", code |-> <<>>,
     message |-> "not a diagnostic"]

\* the standard outputs a run can produce: nothing (""), or two
\* diagnostics around a line that is none
Stdouts == { <<>>, <<LineE225, LineNoise, LineF401>> }

Max0(n) == IF n > 0 THEN n ELSE 0

\* the lsp.Diagnostic built from a matching line
ToDiagnostic(data, severity) ==
    [line |-> Max0(data.line - 1), character |-> Max0(data.column - 1),
     message |-> data.message,
     severity |-> _get_severity(data.code, data.type, severity),
     code |-> data.code, source |-> TOOL_DISPLAY]

RECURSIVE _parse_output_reversed(_, _)
_parse_output_reversed(lines, severity) ==
    IF lines = <<>> THEN <<>>
    ELSE LET rest == _parse_output_reversed(Tail(lines), severity)
         IN  IF Head(lines).match
             THEN Append(rest, ToDiagnostic(Head(lines), severity))
             ELSE rest

RECURSIVE _parse_output_using_regex(_, _)
_parse_output_using_regex(lines, severity) ==
    IF lines = <<>> THEN <<>>
    ELSE LET rest == _parse_output_using_regex(Tail(lines), severity)
         IN  IF Head(lines).match
             THEN <<ToDiagnostic(Head(lines), severity)>> \o rest
             ELSE rest

\* ---------------------------------------------------------------------
\* Settings
\* ---------------------------------------------------------------------
CustomSeverity ==
    (<<"E", "2", "2">> :> "Warning") @@ (<<"E">> :> "Information")
    @@ (<<"F">> :> "Hint")

\* glob patterns of the ignorePatterns setting, as sequences of segment
\* patterns: "**/h*.py", "**/sub/**/*.py" and "**/something*.py"
PatternFile == <<"**", "h*.py">>
PatternDir == <<"**", "sub", "**", "*.py">>
PatternOther == <<"**", "something*.py">>

\* one entry of initializationOptions["settings"] for the workspace folder
\* at the path p
ClientSetting(p, tool) == [workspace |-> from_fs_path(p), cwd |-> p] @@ tool

\* the entries a client sends for the folder /ws, named by its real path:
\* the tool run in-process, or an executable of flake8 beside an
\* interpreter that is not the server's
WsSettings ==
    { ClientSetting(WsDir,
          [path |-> <<>>, interpreter |-> <<>>, args |-> <<>>,
           severity |-> DefaultSeverity, ignorePatterns |-> <<>>]),
      ClientSetting(WsDir,
          [path |-> <<"/opt/bin/flake8">>, interpreter |-> <<"python">>,
           args |-> <<"--max-line-length=120">>,
           severity |-> DefaultSeverity, ignorePatterns |-> <<>>]) }

\* the entries for the same folder named through the link /lnk: the
\* server's own interpreter, or the executable beside it
LnkSettings ==
    { ClientSetting(<<"lnk">>,
          [path |-> <<>>, interpreter |-> <<sys_executable>>,
           args |-> <<"--max-line-length=120">>,
           severity |-> CustomSeverity,
           ignorePatterns |-> <<PatternOther>>]),
      ClientSetting(<<"lnk">>,
          [path |-> <<"/opt/bin/flake8">>, interpreter |-> <<sys_executable>>,
           args |-> <<>>, severity |-> CustomSeverity,
           ignorePatterns |-> <<PatternOther, PatternDir>>]) }

\* the entry for the nested folder /ws/sub: another interpreter
SubSettings ==
    { ClientSetting(SubDir,
          [path |-> <<>>, interpreter |-> <<"python">>, args |-> <<>>,
           severity |-> DefaultSeverity,
           ignorePatterns |-> <<PatternFile>>]) }

ClientSettings == WsSettings \cup LnkSettings \cup SubSettings

\* an entry the client sends without the "workspace" key
MalformedSetting ==
    [cwd |-> SubDir, path |-> <<>>, interpreter |-> <<>>, args |-> <<>>,
     severity |-> DefaultSeverity]

\* an entry for /ws/sub that the client sends without the "severity" key
PartialSettings ==
    { [workspace |-> from_fs_path(SubDir), cwd |-> SubDir, path |-> <<>>,
       interpreter |-> <<>>, args |-> <<>>] }

\* dict subscription setting[key] raises KeyError when the key is missing
HasKey(d, key) == key \in DOMAIN d

\* the values of initializationOptions["settings"]: no entry, one entry,
\* the in-process entry of /ws followed by one of the nested /ws/sub, an
\* entry of /ws with a tool path followed by one of /lnk (the same folder), the
\* entries of /lnk and of /ws/sub with a malformed entry between them, or
\* an entry of /ws/sub without its severity table
SettingsLists ==
    {<<>>} \cup { <<s>> : s \in ClientSettings }
    \cup { <<s, t>> : s \in { c \in WsSettings : c.path = <<>> },
                      t \in SubSettings }
    \cup { <<s, t>> : s \in { c \in WsSettings : c.path # <<>> },
                      t \in { c \in LnkSettings : c.path = <<>> } }
    \cup { <<s, MalformedSetting, t>> :
              s \in { c \in LnkSettings : c.path = <<>> }, t \in SubSettings }
    \cup { <<s>> : s \in PartialSettings }

\* the values of initializationOptions["globalSettings"]
GlobalSettingsChoices ==
    { [x \in {} |-> x],
      [args |-> <<"--max-complexity=10">>, cwd |-> TmpX] }

\* os.getcwd() of the server: /ws reached through the link /lnk
os_getcwd == <<"lnk">>

\* dict.get(key, default)
Get(d, key, default) == IF key \in DOMAIN d THEN d[key] ELSE default

\* GLOBAL_SETTINGS.update(**d)
DictUpdate(d, e) == e @@ d

_get_global_defaults(globals) ==
    [path |-> Get(globals, "path", <<>>),
     interpreter |-> Get(globals, "interpreter", <<sys_executable>>),
     args |-> Get(globals, "args", <<>>),
     severity |-> Get(globals, "severity", DefaultSeverity)]

\* the entry built around the global defaults for the directory key
DefaultsFor(key, globals) ==
    [cwd |-> key, workspaceFS |-> key, workspace |-> from_fs_path(key)]
    @@ _get_global_defaults(globals)

\* the loop of _update_workspace_settings, entry by entry: the store as the
\* loop leaves it, and whether setting["workspace"] raised KeyError (the
\* entries before the one that raises are stored, those after it are not
\* reached)
RECURSIVE UpsertAll(_, _)
UpsertAll(store, settings) ==
    IF settings = <<>> THEN [store |-> store, raised |-> FALSE]
    ELSE LET setting == Head(settings)
         IN  IF ~HasKey(setting, "workspace")
             THEN [store |-> store, raised |-> TRUE]
             ELSE LET key == normalize_path(to_fs_path(setting.workspace))
                  IN  UpsertAll(
                          (key :> ([workspaceFS |-> key] @@ setting)) @@ store,
                          Tail(settings))

RECURSIVE UpsertAllUnnormalized(_, _)
UpsertAllUnnormalized(store, settings) ==
    IF settings = <<>> THEN [store |-> store, raised |-> FALSE]
    ELSE LET setting == Head(settings)
         IN  IF ~HasKey(setting, "workspace")
             THEN [store |-> store, raised |-> TRUE]
             ELSE LET key == to_fs_path(setting.workspace)
                  IN  UpsertAllUnnormalized(
                          (key :> ([workspaceFS |-> key] @@ setting)) @@ store,
                          Tail(settings))

_update_workspace_settings_unnormalized(store, globals, settings) ==
    IF settings = <<>>
    THEN LET key == Get(globals, "cwd", os_getcwd)
         IN  [store |-> (key :> DefaultsFor(key, globals)) @@ store,
              raised |-> FALSE]
    ELSE UpsertAllUnnormalized(store, settings)

_update_workspace_settings(store, globals, settings) ==
    IF settings = <<>>
    THEN LET key == normalize_path(Get(globals, "cwd", os_getcwd))
         IN  [store |-> (key :> DefaultsFor(key, globals)) @@ store,
              raised |-> FALSE]
    ELSE UpsertAll(store, settings)

\* ---------------------------------------------------------------------
\* Settings resolution
\* ---------------------------------------------------------------------
\* the while loop of _get_document_key
RECURSIVE AncestorWalk(_, _)
AncestorWalk(document_workspace, workspaces) ==
    IF document_workspace = Parent(document_workspace) THEN None
    ELSE IF normalize_path(document_workspace) \in workspaces
         THEN normalize_path(document_workspace)
         ELSE AncestorWalk(Parent(document_workspace), workspaces)

WhileStepFromNormalized(document_workspace, tested, workspaces) ==
    IF document_workspace = Parent(document_workspace)
    THEN [pc |-> "done", document_workspace |-> document_workspace,
          tested |-> tested, result |-> None]
    ELSE IF normalize_path(document_workspace) \in workspaces
    THEN [pc |-> "done", document_workspace |-> document_workspace,
          tested |-> Append(tested, document_workspace),
          result |-> normalize_path(document_workspace)]
    ELSE [pc |-> "loop",
          document_workspace |-> Parent(normalize_path(document_workspace)),
          tested |-> Append(tested, document_workspace), result |-> None]

\* one evaluation of the while condition of _get_document_key and, when
\* it holds, one run of the loop body: the state of the loop after it
\* (tested: the candidates whose membership has been tested, in order)
WhileStep(document_workspace, tested, workspaces) ==
    IF document_workspace = Parent(document_workspace)
    THEN [pc |-> "done", document_workspace |-> document_workspace,
          tested |-> tested, result |-> None]
    ELSE IF normalize_path(document_workspace) \in workspaces
    THEN [pc |-> "done", document_workspace |-> document_workspace,
          tested |-> Append(tested, document_workspace),
          result |-> normalize_path(document_workspace)]
    ELSE [pc |-> "loop",
          document_workspace |-> Parent(document_workspace),
          tested |-> Append(tested, document_workspace), result |-> None]

_get_document_key(store, path) ==
    IF DOMAIN store # {}
    THEN AncestorWalk(path, { store[k].workspaceFS : k \in DOMAIN store })
    ELSE None

_get_settings_by_document_own_path(store, globals, document) ==
    LET key == _get_document_key(store, document.path)
    IN  IF key = None
        THEN DefaultsFor(normalize_path(document.path), globals)
        ELSE store[key]

_get_settings_by_document(store, globals, document) ==
    LET key == _get_document_key(store, document.path)
    IN  IF key = None
        THEN DefaultsFor(normalize_path(Parent(document.path)), globals)
        ELSE store[key]

\* ---------------------------------------------------------------------
\* Backend selection and argument vector
\* ---------------------------------------------------------------------
_is_supported_file(document) == exists(document.path)

\* the branch taken at the head of _run_tool_on_document and of _run_tool:
\* "path" is the direct spawn of the executable, "rpc" the JSON-RPC
\* subprocess of another interpreter, "module" the in-process run
SelectBackendInterpreterFirst(settings) ==
    IF settings.interpreter # <<>>
       /\ ~is_current_interpreter(settings.interpreter[1]) THEN "rpc"
    ELSE IF settings.path # <<>> THEN "path"
    ELSE "module"

SelectBackendEmptyInterpreterRpc(settings) ==
    IF settings.path # <<>> THEN "path"
    ELSE IF settings.interpreter = <<>>
            \/ ~is_current_interpreter(settings.interpreter[1]) THEN "rpc"
    ELSE "module"

SelectBackend(settings) ==
    IF settings.path # <<>> THEN "path"
    ELSE IF settings.interpreter # <<>>
            /\ ~is_current_interpreter(settings.interpreter[1]) THEN "rpc"
    ELSE "module"

BaseArgv(settings) ==
    IF settings.path # <<>> THEN settings.path ELSE <<TOOL_MODULE>>

SkipsDocumentNotebookOnly(document) ==
    document.uri.scheme = "vscode-notebook-cell"

SkipsDocumentLexical(document) ==
    \/ document.uri.scheme = "vscode-notebook-cell"
    \/ /\ IsUnder(document.path, StdlibRoot)
       /\ \A i \in 1..Len(document.path) : document.path[i] # SITE_PACKAGES

\* the head of _run_tool_on_document: the documents it returns None for
SkipsDocument(document) ==
    \/ document.uri.scheme = "vscode-notebook-cell"
    \/ is_stdlib_file(document.path)

_run_tool_on_document_args_first(store, globals, document, use_stdin, extra_args) ==
    IF SkipsDocument(document) THEN [skip |-> TRUE]
    ELSE LET settings == _get_settings_by_document(store, globals, document)
             file == FsPathString[document.path]
         IN  [skip |-> FALSE,
              settings |-> settings,
              code_workspace |-> settings.workspaceFS,
              cwd |-> settings.cwd,
              backend |-> SelectBackend(settings),
              argv |-> BaseArgv(settings) \o settings.args \o TOOL_ARGS
                       \o extra_args
                       \o (IF use_stdin
                           THEN <<"--stdin-display-name", file, "-">>
                           ELSE <<file>>)]

\* _run_tool_on_document up to the invocation: "skip" when it returns None
_run_tool_on_document(store, globals, document, use_stdin, extra_args) ==
    IF SkipsDocument(document) THEN [skip |-> TRUE]
    ELSE LET settings == _get_settings_by_document(store, globals, document)
             file == FsPathString[document.path]
         IN  [skip |-> FALSE,
              settings |-> settings,
              code_workspace |-> settings.workspaceFS,
              cwd |-> settings.cwd,
              backend |-> SelectBackend(settings),
              argv |-> BaseArgv(settings) \o TOOL_ARGS \o settings.args
                       \o extra_args
                       \o (IF use_stdin
                           THEN <<"--stdin-display-name", file, "-">>
                           ELSE <<file>>)]

\* _run_tool up to the invocation
_run_tool(extra_args, settings) ==
    [code_workspace |-> settings.workspaceFS,
     cwd |-> settings.cwd,
     backend |-> SelectBackend(settings),
     argv |-> BaseArgv(settings) \o extra_args]

\* The store after "argv = settings["path"]; argv += ..." has extended the
\* list in place: settings is a copy.deepcopy of the stored entry, so the
\* list that grows is not the store's.
StoreAfterAppendShared(store, key, argv) ==
    IF key \in DOMAIN store /\ store[key].path # <<>>
    THEN [store EXCEPT ![key].path = argv]
    ELSE store

StoreAfterAppend(store, key, argv) == store

\* the store after the version probe of every entry, in turn
RECURSIVE StoreAfterProbes(_, _)
StoreAfterProbes(store, keys) ==
    IF keys = {} THEN store
    ELSE LET key == CHOOSE k \in keys : TRUE
             after == StoreAfterAppend(
                          store, key,
                          _run_tool(<<"--version">>, store[key]).argv)
         IN  StoreAfterProbes(after, keys \ {key})

\* sys.path when the server starts: update_sys_path has put the bundled
\* tool and libs directories in front
SysPathAtStart == <<"/bundled/tool", "/bundled/libs", "/usr/lib">>

\* the new value handed to utils.substitute_attr(sys, "path", ...)
WidenedPath(path) == <<"">> \o path

SysPathAfterRunKeptOnRaise(saved, current, raised) ==
    IF raised THEN current ELSE saved

\* sys.path when the with statement around utils.run_module is left, by
\* the return of the run or by the exception it raises: the value that
\* substitute_attr saved on entry
SysPathAfterRun(saved, current, raised) == saved

\* the standard error text of a run that has something on it
StderrText == "warning: deprecated option"

\* if result.stderr: log_to_output(result.stderr), of the path backend
\* and of the in-process backend: the RunResult and what is logged
_log_result_stderr(result) ==
    [stdout |-> result.stdout,
     stderr |-> result.stderr,
     logged |-> IF result.stderr # "" THEN {result.stderr} ELSE {}]

\* _to_run_result_with_logging: the RunResult of an RPC response, and
\* what is logged: the exception, or else the standard error text
_to_run_result_with_logging(rpc_result) ==
    [stdout |-> rpc_result.stdout,
     stderr |-> IF rpc_result.exception # "" THEN rpc_result.exception
                ELSE rpc_result.stderr,
     logged |-> IF rpc_result.exception # "" THEN {rpc_result.exception}
                ELSE IF rpc_result.stderr # "" THEN {rpc_result.stderr}
                ELSE {}]

\* what the invocation of a backend can come to: it raises, or it returns
\* a result; the RPC response can carry the exception of the remote side
RunOutcomes(backend) ==
    { [raised |-> TRUE, stdout |-> <<>>, stderr |-> "", exception |-> ""] }
    \cup { [raised |-> FALSE, stdout |-> out, stderr |-> "",
            exception |-> ""] : out \in Stdouts }
    \cup { [raised |-> FALSE, stdout |-> <<>>,
            stderr |-> StderrText, exception |-> ""] }
    \cup (IF backend = "rpc"
          THEN { [raised |-> FALSE, stdout |-> <<>>, stderr |-> err,
                  exception |-> "Traceback"] : err \in {"", StderrText} }
          ELSE {})

\* ---------------------------------------------------------------------
\* State
\* ---------------------------------------------------------------------
VARIABLES
    WORKSPACE_SETTINGS,  \* normalized workspace path -> settings entry
    GLOBAL_SETTINGS,     \* the global settings dict
    pipelines,           \* the open/save handlers in flight, by slot
    published,           \* per document: publishes received, last diagnostics
    lints,               \* per document: lint invocations, the last of them
    versionRuns,         \* per store key: the version probe of initialize
    completed,           \* the handler that returned last, and what it did
    events,              \* notifications taken so far
    sys_path,            \* sys.path of the server process
    closed,              \* documents closed and not opened or saved since
    sevIn,               \* input of the severity lookup examined on its own
    sevOut,              \* its result
    planIn,              \* document whose planning is examined on its own
    planOut,             \* its result
    argvIn,              \* inputs of the argument vector examined on its own
    argvOut,             \* its result
    walkIn,              \* inputs of the ancestor walk examined on its own
    walkOut              \* the state of its loop

vars ==
    << WORKSPACE_SETTINGS, GLOBAL_SETTINGS, pipelines, published, lints,
       versionRuns, completed, events, sys_path, closed, sevIn, sevOut,
       planIn, planOut, argvIn, argvOut, walkIn, walkOut >>

\* the variables of the examinations of single functions
auxVars ==
    << sevIn, sevOut, planIn, planOut, argvIn, argvOut, walkIn, walkOut >>

serverVars ==
    << WORKSPACE_SETTINGS, GLOBAL_SETTINGS, pipelines, published, lints,
       versionRuns, completed, events, sys_path, closed >>

Slots == 1..MaxInFlight

EmptyDict == [x \in {} |-> x]

\* inputs of the severity lookup: a code and a severity table
SevCodes == { E225, F401, <<"W", "6", "0", "5">> }
SevKeys == { E225, <<"E", "2", "2">>, <<"E", "2">>, <<"E">>, <<"F">> }
SevValues == { "Warning", "Hint", "Fatal" }
SevTables == UNION { [keys -> SevValues] : keys \in SUBSET SevKeys }

ServerInit ==
    /\ WORKSPACE_SETTINGS = EmptyDict
    /\ GLOBAL_SETTINGS = EmptyDict
    /\ pipelines = [w \in Slots |-> [pc |-> "idle"]]
    /\ published = [u \in Documents |-> [count |-> 0, diags |-> <<>>]]
    /\ lints = [u \in Documents |-> [count |-> 0]]
    /\ versionRuns = EmptyDict
    /\ completed = [kind |-> "none"]
    /\ events = 0
    /\ sys_path = SysPathAtStart
    /\ closed = {}

\* inputs of the planning: the directories of bounded depth over the
\* segments below, a file m.py in each, opened as a file or as a notebook
\* cell
PlanSegments ==
    { "usr", "lib", SITE_PACKAGES, "site-packages-backup", "std", "pkgs" }
PlanDirs ==
    UNION { [1..n -> PlanSegments] : n \in 0..MaxPlanDepth }
PlanPaths == { Append(d, "m.py") : d \in PlanDirs }
PlanDocuments ==
    { [uri |-> [scheme |-> scheme, path |-> p], path |-> p] :
        scheme \in {"file", "vscode-notebook-cell"}, p \in PlanPaths }

\* the examinations of single functions, each at rest
SevIdle ==
    /\ sevIn = [code |-> E225, severity |-> DefaultSeverity]
    /\ sevOut = NoValue

PlanIdle ==
    /\ planIn = get_document(DocOrphan)
    /\ planOut = [done |-> FALSE]

ArgvIdle ==
    /\ argvIn = [store |-> EmptyDict, globals |-> EmptyDict,
                 document |-> get_document(DocOrphan),
                 use_stdin |-> FALSE, extra_args |-> <<>>]
    /\ argvOut = [done |-> FALSE]

WalkIdle ==
    /\ walkIn = [path |-> to_fs_path(DocOrphan), workspaces |-> {}]
    /\ walkOut = [pc |-> "idle"]

AuxInit ==
    /\ SevIdle
    /\ PlanIdle
    /\ ArgvIdle
    /\ WalkIdle

Init ==
    /\ ServerInit
    /\ AuxInit

\* LSP_SERVER.publish_diagnostics
publish_diagnostics(uri, diagnostics) ==
    published' = [published EXCEPT
                    ![uri] = [count |-> @.count + 1, diags |-> diagnostics]]

\* the record of a handler of a document event that has returned; did_open
\* and did_save are the same code and both are recorded as "lint"
\* log is the highest lsp.MessageType the handler logged a message at
Completed(kind, uri, outcome, stdout, diagnostics, log) ==
    [kind |-> kind, uri |-> uri, outcome |-> outcome, stdout |-> stdout,
     diags |-> diagnostics, prior |-> published[uri], log |-> log]

LintingFailedPropagating(w, uri) ==
    /\ completed' = Completed("lint", uri, "fault", <<>>, <<>>, "Log")
    /\ pipelines' = [pipelines EXCEPT ![w] = [pc |-> "failed"]]
    /\ UNCHANGED published

\* the except clause of _linting_helper, and the handler's publish of the
\* [] that _linting_helper returns after it
LintingFailed(w, uri) ==
    /\ completed' = Completed("lint", uri, "fault", <<>>, <<>>, "Error")
    /\ pipelines' = [pipelines EXCEPT ![w] = [pc |-> "idle"]]
    /\ publish_diagnostics(uri, <<>>)

\* ---------------------------------------------------------------------
\* initialize
\* ---------------------------------------------------------------------
initialize(params) ==
    /\ events < MaxEvents
    /\ events' = events + 1
    /\ GLOBAL_SETTINGS' = DictUpdate(GLOBAL_SETTINGS, params.globalSettings)
    /\ LET result == _update_workspace_settings(
                         WORKSPACE_SETTINGS, GLOBAL_SETTINGS',
                         params.settings)
           updated == result.store
       IN  IF result.raised
           THEN \* the KeyError leaves the handler: no probe is run
                /\ WORKSPACE_SETTINGS' = updated
                /\ versionRuns' = versionRuns
                /\ sys_path' = sys_path
                /\ completed' = [kind |-> "initialize", outcome |-> "raised",
                                 settings |-> params.settings,
                                 written |-> updated]
           ELSE \* _log_version_info: one probe for every entry of the store
                /\ versionRuns' =
                       [k \in DOMAIN updated |->
                           [settings |-> updated[k]]
                           @@ _run_tool(<<"--version">>, updated[k])]
                /\ WORKSPACE_SETTINGS' =
                       StoreAfterProbes(updated, DOMAIN updated)
                \* a probe run in-process widens sys.path and leaves the
                \* with statement before the next probe starts
                /\ sys_path' =
                       IF \E k \in DOMAIN updated :
                              SelectBackend(updated[k]) = "module"
                       THEN SysPathAfterRun(sys_path, WidenedPath(sys_path),
                                            FALSE)
                       ELSE sys_path
                /\ completed' = [kind |-> "initialize", outcome |-> "ok",
                                 settings |-> params.settings,
                                 written |-> updated]
    /\ UNCHANGED << pipelines, published, lints, closed, auxVars >>

\* ---------------------------------------------------------------------
\* did_open / did_save: _linting_helper up to the invocation of the tool
\* ---------------------------------------------------------------------
StartLint(w, uri) ==
    /\ events < MaxEvents
    /\ pipelines[w].pc = "idle"
    /\ \A v \in Slots : v < w => pipelines[v].pc # "idle"
    /\ Cardinality({ v \in Slots : pipelines[v].pc # "idle" }) < MAX_WORKERS
    /\ events' = events + 1
    /\ closed' = closed \ {uri}
    /\ LET document == get_document(uri)
           plan == _run_tool_on_document(
                       WORKSPACE_SETTINGS, GLOBAL_SETTINGS, document,
                       FALSE, <<>>)
       IN  IF ~_is_supported_file(document)
           THEN /\ publish_diagnostics(uri, <<>>)
                /\ completed' = Completed("lint", uri, "unsupported", <<>>,
                                          <<>>, "Info")
                /\ UNCHANGED << WORKSPACE_SETTINGS, pipelines, lints,
                                sys_path >>
           ELSE IF plan.skip
           THEN /\ publish_diagnostics(uri, <<>>)
                /\ completed' = Completed("lint", uri, "skipped", <<>>,
                                          <<>>, "Warning")
                /\ UNCHANGED << WORKSPACE_SETTINGS, pipelines, lints,
                                sys_path >>
           ELSE /\ pipelines' =
                      [pipelines EXCEPT
                          ![w] = [pc |-> "run", uri |-> uri,
                                  settings |-> plan.settings,
                                  backend |-> plan.backend,
                                  argv |-> plan.argv, cwd |-> plan.cwd,
                                  saved |-> sys_path]]
                \* the in-process run starts inside the with statement
                /\ sys_path' = IF plan.backend = "module"
                               THEN WidenedPath(sys_path) ELSE sys_path
                /\ lints' =
                      [lints EXCEPT
                          ![uri] = [count |-> @.count + 1,
                                    settings |-> plan.settings,
                                    backend |-> plan.backend,
                                    argv |-> plan.argv, cwd |-> plan.cwd]]
                /\ WORKSPACE_SETTINGS' =
                      StoreAfterAppend(
                          WORKSPACE_SETTINGS,
                          _get_document_key(WORKSPACE_SETTINGS, document.path),
                          plan.argv)
                /\ UNCHANGED << published, completed >>
    /\ UNCHANGED << GLOBAL_SETTINGS, versionRuns, auxVars >>

did_open(w, uri) == StartLint(w, uri)

did_save(w, uri) == StartLint(w, uri)

\* ---------------------------------------------------------------------
\* the invocation of the tool, and the handler's return when the run
\* raises or leaves nothing on standard output
\* ---------------------------------------------------------------------
RunTool(w, outcome) ==
    LET p == pipelines[w]
        result == IF p.backend = "rpc"
                  THEN _to_run_result_with_logging(outcome)
                  ELSE _log_result_stderr(outcome)
        fault == outcome.raised \/ outcome.exception # ""
        \* the run that returned: what the backend gave and what was
        \* written to the log of it
        run == [backend |-> p.backend, stderr |-> outcome.stderr,
                exception |-> outcome.exception, logged |-> result.logged]
    IN  /\ p.pc = "run"
        /\ outcome \in RunOutcomes(p.backend)
        /\ sys_path' = IF p.backend = "module"
                       THEN SysPathAfterRun(p.saved, sys_path, outcome.raised)
                       ELSE sys_path
        /\ IF outcome.raised
           THEN LintingFailed(w, p.uri)
           ELSE IF result.stdout = <<>>
           THEN /\ publish_diagnostics(p.uri, <<>>)
                /\ completed' =
                      Completed("lint", p.uri,
                                IF fault THEN "fault" ELSE "ok",
                                <<>>, <<>>,
                                IF fault THEN "Error" ELSE "Log")
                      @@ [run |-> run]
                /\ pipelines' = [pipelines EXCEPT ![w] = [pc |-> "idle"]]
           ELSE /\ pipelines' =
                      [pipelines EXCEPT
                          ![w] = [pc |-> "parse", uri |-> p.uri,
                                  settings |-> p.settings,
                                  stdout |-> result.stdout, run |-> run]]
                /\ UNCHANGED << published, completed >>
        /\ UNCHANGED << WORKSPACE_SETTINGS, GLOBAL_SETTINGS, lints,
                        versionRuns, events, closed, auxVars >>

\* ---------------------------------------------------------------------
\* the parsing of the output with the severity of the settings read anew,
\* and the publish of did_open / did_save
\* ---------------------------------------------------------------------
ParseAndPublish(w) ==
    LET p == pipelines[w]
    IN  /\ p.pc = "parse"
        /\ LET settings == _get_settings_by_document(
                               WORKSPACE_SETTINGS, GLOBAL_SETTINGS,
                               get_document(p.uri))
               diagnostics == _parse_output_using_regex(
                                  p.stdout, settings.severity)
           IN  IF ~HasKey(settings, "severity")
               THEN \* settings["severity"] raises KeyError
                    LintingFailed(w, p.uri)
               ELSE /\ publish_diagnostics(p.uri, diagnostics)
                    /\ completed' = Completed("lint", p.uri, "ok", p.stdout,
                                              diagnostics, "Log")
                                     @@ [run |-> p.run]
                    /\ pipelines' = [pipelines EXCEPT ![w] = [pc |-> "idle"]]
        /\ UNCHANGED << WORKSPACE_SETTINGS, GLOBAL_SETTINGS, lints,
                        versionRuns, events, sys_path, closed, auxVars >>

\* ---------------------------------------------------------------------
\* did_close
\* ---------------------------------------------------------------------
\* the client has opened or saved the document: textDocument/didClose is
\* sent for an open document only
Opened(uri) == lints[uri].count > 0 \/ published[uri].count > 0

did_close_republishing(uri) ==
    /\ events < MaxEvents
    /\ Opened(uri)
    /\ events' = events + 1
    /\ closed' = closed \cup {uri}
    /\ publish_diagnostics(uri, published[uri].diags)
    /\ completed' = Completed("close", uri, "closed", <<>>,
                              published[uri].diags, "")
    /\ UNCHANGED << WORKSPACE_SETTINGS, GLOBAL_SETTINGS, pipelines, lints,
                    versionRuns, sys_path, auxVars >>

did_close(uri) ==
    /\ events < MaxEvents
    /\ Opened(uri)
    /\ events' = events + 1
    /\ closed' = closed \cup {uri}
    /\ publish_diagnostics(uri, <<>>)
    /\ completed' = Completed("close", uri, "closed", <<>>, <<>>, "")
    /\ UNCHANGED << WORKSPACE_SETTINGS, GLOBAL_SETTINGS, pipelines, lints,
                    versionRuns, sys_path, auxVars >>

\* ---------------------------------------------------------------------
\* The server
\* ---------------------------------------------------------------------
\* the values of initializationOptions: every settings sequence without
\* global settings, and the global settings beside no entry (the global
\* settings of a session stay as set)
InitializeParams ==
    { [globalSettings |-> EmptyDict, settings |-> l] : l \in SettingsLists }
    \cup { [globalSettings |-> g, settings |-> l] :
              g \in GlobalSettingsChoices,
              l \in {<<>>} }

Next ==
    \/ \E params \in InitializeParams : initialize(params)
    \/ \E w \in Slots, uri \in Documents : did_open(w, uri)
    \/ \E w \in Slots, uri \in Documents : did_save(w, uri)
    \/ \E w \in Slots :
          \E outcome \in RunOutcomes("rpc") : RunTool(w, outcome)
    \/ \E w \in Slots : ParseAndPublish(w)
    \/ \E uri \in Documents : did_close(uri)

Spec == Init /\ [][Next]_vars

\* ---------------------------------------------------------------------
\* The severity lookup on its own inputs
\* ---------------------------------------------------------------------
SevInit ==
    /\ ServerInit
    /\ sevIn \in [code : SevCodes, severity : SevTables]
    /\ sevOut = NoValue
    /\ PlanIdle
    /\ ArgvIdle
    /\ WalkIdle

LookupSeverity ==
    /\ sevOut = NoValue
    /\ sevOut' = _get_severity(sevIn.code, sevIn.code[1], sevIn.severity)
    /\ UNCHANGED << serverVars, sevIn, planIn, planOut, argvIn, argvOut,
                    walkIn, walkOut >>

SevNext == LookupSeverity

SpecSeverity == SevInit /\ [][SevNext]_vars

\* ---------------------------------------------------------------------
\* The planning of a run on its own inputs: the skip conditions at the head
\* of _run_tool_on_document, with an empty store
\* ---------------------------------------------------------------------
PlanInit ==
    /\ ServerInit
    /\ SevIdle
    /\ planIn \in PlanDocuments
    /\ planOut = [done |-> FALSE]
    /\ ArgvIdle
    /\ WalkIdle

PlanDocument ==
    /\ ~planOut.done
    /\ planOut' =
          [done |-> TRUE, skip |-> SkipsDocument(planIn)]
    /\ UNCHANGED << serverVars, sevIn, sevOut, planIn, argvIn, argvOut,
                    walkIn, walkOut >>

PlanNext == PlanDocument

SpecPlan == PlanInit /\ [][PlanNext]_vars

\* ---------------------------------------------------------------------
\* The argument vector of a document lint on its own inputs: a store and
\* global settings as an initialize leaves them, a document, and the two
\* parameters use_stdin and extra_args of _run_tool_on_document
\* ---------------------------------------------------------------------
\* the store and the global settings after the initialize of params
AfterInitialize(params) ==
    LET globals == DictUpdate(EmptyDict, params.globalSettings)
        result == _update_workspace_settings(EmptyDict, globals,
                                             params.settings)
    IN  [globals |-> globals,
         store |-> IF result.raised THEN result.store
                   ELSE StoreAfterProbes(result.store, DOMAIN result.store)]

ExtraArgs == { <<>>, <<"--select=E,F">>, <<"--isolated", "--exit-zero">> }

\* the values of initializationOptions of this examination: those of the
\* server, and the entry of /ws/sub with arguments of its own
ArgvInitializeParams ==
    InitializeParams
    \cup { [globalSettings |-> g,
            settings |-> <<[s EXCEPT !.args = <<"--max-line-length=120">>]>>] :
              g \in GlobalSettingsChoices, s \in SubSettings }

ArgvInit ==
    /\ ServerInit
    /\ SevIdle
    /\ PlanIdle
    /\ WalkIdle
    /\ \E params \in ArgvInitializeParams, uri \in Documents,
          use_stdin \in BOOLEAN, extra_args \in ExtraArgs :
          argvIn = [store |-> AfterInitialize(params).store,
                    globals |-> AfterInitialize(params).globals,
                    document |-> get_document(uri),
                    use_stdin |-> use_stdin, extra_args |-> extra_args]
    /\ argvOut = [done |-> FALSE]

PlanArgv ==
    /\ ~argvOut.done
    /\ argvOut' =
          [done |-> TRUE,
           plan |-> _run_tool_on_document(
                        argvIn.store, argvIn.globals, argvIn.document,
                        argvIn.use_stdin, argvIn.extra_args)]
    /\ UNCHANGED << serverVars, sevIn, sevOut, planIn, planOut, argvIn,
                    walkIn, walkOut >>

ArgvNext == PlanArgv

SpecArgv == ArgvInit /\ [][ArgvNext]_vars

\* ---------------------------------------------------------------------
\* The ancestor walk of _get_document_key on its own inputs: a document
\* path and the workspaceFS values of a store that is not empty
\* ---------------------------------------------------------------------
WalkWorkspaces == (SUBSET { Root, WsDir, SubDir, InDir }) \ {{}}

WalkInit ==
    /\ ServerInit
    /\ SevIdle
    /\ PlanIdle
    /\ ArgvIdle
    /\ walkIn \in [path : ResolvablePaths, workspaces : WalkWorkspaces]
    /\ walkOut = [pc |-> "loop", document_workspace |-> walkIn.path,
                  tested |-> <<>>, result |-> None]

WalkStep ==
    /\ walkOut.pc = "loop"
    /\ walkOut' = WhileStep(walkOut.document_workspace, walkOut.tested,
                            walkIn.workspaces)
    /\ UNCHANGED << serverVars, sevIn, sevOut, planIn, planOut, argvIn,
                    argvOut, walkIn >>

WalkNext == WalkStep

\* the loop is sequential code of one handler: it is run to its end
SpecWalk == WalkInit /\ [][WalkNext]_vars /\ WF_vars(WalkNext)

\* ---------------------------------------------------------------------
\* Properties
\* ---------------------------------------------------------------------
IsMatch(l) == l.match

\* the lines of an output that DIAGNOSTIC_RE matches, in their order
MatchingLines(stdout) == SelectSeq(stdout, IsMatch)

\* the registered roots the real location of the path p lies in
EnclosingRoots(store, p) ==
    { k \in DOMAIN store : IsUnder(normalize_path(p), k) }

\* the member of a chain of nested roots that is the deepest
Deepest(roots) == CHOOSE k \in roots : \A j \in roots : Len(j) <= Len(k)

\* the directories above the path p as it is written, up to the root
RECURSIVE Ancestors(_)
Ancestors(p) ==
    IF p = Root THEN {} ELSE {Parent(p)} \cup Ancestors(Parent(p))

Resolve(p) ==
    _get_settings_by_document(
        WORKSPACE_SETTINGS, GLOBAL_SETTINGS, [path |-> p])

\* occurrences of the format directive in an argument vector
FormatCount(argv) ==
    Cardinality({ i \in DOMAIN argv : argv[i] = TOOL_ARGS[1] })

\* C1: an open or save of a supported file whose run succeeds ends in one
\* publish for the document's URI, and the diagnostics published are those
\* of the matching lines of the run's standard output, in the order of the
\* lines (none when the output is empty).
C1_PublishesParsedOutput ==
    (completed.kind = "lint" /\ completed.outcome = "ok") =>
        LET now == published[completed.uri]
            lines == MatchingLines(completed.stdout)
        IN  /\ now.count = completed.prior.count + 1
            /\ Len(now.diags) = Len(lines)
            /\ \A i \in 1..Len(lines) :
                  /\ now.diags[i].code = lines[i].code
                  /\ now.diags[i].message = lines[i].message
                  /\ now.diags[i].line = Max0(lines[i].line - 1)
                  /\ now.diags[i].character = Max0(lines[i].column - 1)
            /\ (completed.stdout = <<>> => now.diags = <<>>)

\* a run whose output has a line that is no diagnostic between two that
\* are, published as two diagnostics
C1_Witness ==
    /\ completed.kind = "lint"
    /\ completed.outcome = "ok"
    /\ Len(completed.stdout) = 3
    /\ Len(published[completed.uri].diags) = 2
    /\ published[completed.uri].diags[1].code = E225

\* C2: a close ends in one publish of the empty sequence for the document's
\* URI, whatever was published for it before and whatever the store holds,
\* and the step of the close runs no tool and leaves the settings alone.
C2_CloseClears ==
    /\ [](completed.kind = "close" =>
             /\ published[completed.uri].diags = <<>>
             /\ published[completed.uri].count = completed.prior.count + 1)
    /\ [][(completed' # completed /\ completed'.kind = "close") =>
             UNCHANGED << lints, pipelines, versionRuns,
                          WORKSPACE_SETTINGS, GLOBAL_SETTINGS >>]_vars

\* a close of a document that had two diagnostics, with a store that is
\* not empty
C2_Witness ==
    /\ completed.kind = "close"
    /\ Len(completed.prior.diags) = 2
    /\ published[completed.uri].diags = <<>>
    /\ DOMAIN WORKSPACE_SETTINGS # {}

\* C3: a document whose real location lies in one registered root resolves
\* to the entry of that root, whatever links its path runs through.
C3_ResolvesThroughLinks ==
    \A p \in ResolvablePaths :
        LET roots == EnclosingRoots(WORKSPACE_SETTINGS, p)
        IN  Cardinality(roots) = 1 =>
                Resolve(p) = WORKSPACE_SETTINGS[Deepest(roots)]

\* C4: every key of the store is the normalized form of the workspace path
\* the entry was registered under, is itself normalized, and is the
\* workspaceFS of its entry.
C4_KeysNormalized ==
    \A k \in DOMAIN WORKSPACE_SETTINGS :
        /\ WORKSPACE_SETTINGS[k].workspaceFS = k
        /\ k = normalize_path(to_fs_path(WORKSPACE_SETTINGS[k].workspace))
        /\ k = normalize_path(k)

\* a workspace registered through the link /lnk, stored under /ws
C4_Witness ==
    /\ WsDir \in DOMAIN WORKSPACE_SETTINGS
    /\ WORKSPACE_SETTINGS[WsDir].workspace = from_fs_path(<<"lnk">>)

\* C5: an invocation planned from settings with a tool path uses the
\* declared-path backend and starts its argument vector with that path,
\* whatever the interpreter setting is.
C5_PathTakesPriority ==
    /\ \A u \in Documents :
          (lints[u].count > 0 /\ lints[u].settings.path # <<>>) =>
              /\ lints[u].backend = "path"
              /\ lints[u].argv[1] = lints[u].settings.path[1]
    /\ \A k \in DOMAIN versionRuns :
          versionRuns[k].settings.path # <<>> =>
              /\ versionRuns[k].backend = "path"
              /\ versionRuns[k].argv[1] = versionRuns[k].settings.path[1]

\* a lint with a tool path and an interpreter that is not the server's
C5_Witness ==
    \E u \in Documents :
        /\ lints[u].count > 0
        /\ lints[u].settings.path # <<>>
        /\ lints[u].settings.interpreter # <<>>
        /\ ~is_current_interpreter(lints[u].settings.interpreter[1])
        /\ lints[u].backend = "path"

\* C6: the argument vector of every lint holds the format directive once,
\* and no lint leaves it behind in a tool path of the store.
C6_FormatOnce ==
    /\ \A u \in Documents :
          lints[u].count > 0 => FormatCount(lints[u].argv) = 1
    /\ \A k \in DOMAIN WORKSPACE_SETTINGS :
          FormatCount(WORKSPACE_SETTINGS[k].path) = 0

\* the second lint of a document whose workspace has a tool path
C6_Witness ==
    \E u \in Documents :
        /\ lints[u].count >= 2
        /\ lints[u].backend = "path"
        /\ FormatCount(lints[u].argv) = 1

\* C7: the severity of a code is the override configured for its longest
\* configured prefix, and Error when no prefix of it is configured.
C7_LongestPrefixWins ==
    sevOut # NoValue =>
        LET code == sevIn.code
            hits == { n \in 1..Len(code) :
                        SubSeq(code, 1, n) \in DOMAIN sevIn.severity }
        IN  IF hits = {} THEN sevOut = "Error"
            ELSE LET n == CHOOSE m \in hits : \A j \in hits : j <= m
                     override == sevIn.severity[SubSeq(code, 1, n)]
                 IN  override \in DiagnosticSeverity => sevOut = override

\* E225 looked up in a table that configures E22 and E but not E225
C7_Witness ==
    /\ sevOut = "Warning"
    /\ sevIn.code = E225
    /\ E225 \notin DOMAIN sevIn.severity
    /\ <<"E", "2", "2">> \in DOMAIN sevIn.severity
    /\ <<"E">> \in DOMAIN sevIn.severity
    /\ sevIn.severity[<<"E", "2", "2">>] = "Warning"
    /\ sevIn.severity[<<"E">>] = "Hint"

\* C8: a document none of whose ancestor directories is a registered key
\* (in particular with an empty store) resolves to the global defaults with
\* cwd and workspace root the normalized parent directory of the document.
C8_OrphanGetsDefaults ==
    \A p \in ResolvablePaths :
        (\A a \in Ancestors(p) :
            normalize_path(a) \notin DOMAIN WORKSPACE_SETTINGS) =>
            LET settings == Resolve(p)
                dir == normalize_path(Parent(p))
            IN  /\ settings.cwd = dir
                /\ settings.workspaceFS = dir
                /\ settings.workspace = from_fs_path(dir)
                /\ settings.path = Get(GLOBAL_SETTINGS, "path", <<>>)
                /\ settings.args = Get(GLOBAL_SETTINGS, "args", <<>>)
                /\ settings.interpreter =
                      Get(GLOBAL_SETTINGS, "interpreter", <<sys_executable>>)
                /\ settings.severity =
                      Get(GLOBAL_SETTINGS, "severity", DefaultSeverity)

\* /tmp/x/file.py linted while the store is empty, with cwd /tmp/x
C8_Witness ==
    /\ DOMAIN WORKSPACE_SETTINGS = {}
    /\ lints[DocOrphan].count > 0
    /\ lints[DocOrphan].settings.cwd = TmpX
    /\ lints[DocOrphan].settings.workspaceFS = TmpX

\* C9: a document whose real location lies in several nested registered
\* roots resolves to the entry of the deepest of them.
C9_DeepestRootWins ==
    \A p \in ResolvablePaths :
        LET roots == EnclosingRoots(WORKSPACE_SETTINGS, p)
        IN  Cardinality(roots) >= 2 =>
                Resolve(p) = WORKSPACE_SETTINGS[Deepest(roots)]

\* C10: an open or save whose run ends in a tool fault publishes nothing,
\* and what was published for the document stays as it was.
C10_FaultKeepsDiagnostics ==
    (completed.kind = "lint" /\ completed.outcome = "fault") =>
        /\ published[completed.uri].count = completed.prior.count
        /\ published[completed.uri].diags = completed.prior.diags

\* C11: an open or save that is skipped (a file that does not exist, a
\* notebook cell, a file of the standard library) invokes no tool and
\* publishes nothing: what was published for the document stays as it was.
C11_SkipKeepsDiagnostics ==
    (completed.kind = "lint"
     /\ completed.outcome \in {"unsupported", "skipped"}) =>
        /\ published[completed.uri].count = completed.prior.count
        /\ published[completed.uri].diags = completed.prior.diags

\* the indices of the entries of a settings sequence that have their key
WellFormed(settings) ==
    { i \in DOMAIN settings : HasKey(settings[i], "workspace") }

\* the store key of a well-formed entry
KeyOf(setting) == normalize_path(to_fs_path(setting.workspace))

\* the entry the store holds after the well-formed entry setting is applied
Stored(setting) == [workspaceFS |-> KeyOf(setting)] @@ setting

\* C12: a settings update with a malformed entry in its sequence does not
\* fail, and every well-formed entry of the sequence, before and after the
\* malformed one, is in the store afterwards (the last entry of each key).
C12_MalformedEntrySkipped ==
    (completed.kind = "initialize"
     /\ WellFormed(completed.settings) # DOMAIN completed.settings) =>
        /\ completed.outcome = "ok"
        /\ \A i \in WellFormed(completed.settings) :
              LET setting == completed.settings[i]
              IN  /\ KeyOf(setting) \in DOMAIN WORKSPACE_SETTINGS
                  /\ (\A j \in WellFormed(completed.settings) :
                         (j > i => KeyOf(completed.settings[j]) # KeyOf(setting)))
                     => WORKSPACE_SETTINGS[KeyOf(setting)] = Stored(setting)

\* a step of initialize: it takes an event and starts or ends no handler of
\* a document event
IsInitializeStep ==
    /\ events' # events
    /\ pipelines' = pipelines
    /\ published' = published

\* the keys of the well-formed entries of a settings sequence
KeysOf(settings) == { KeyOf(settings[i]) : i \in WellFormed(settings) }

\* the last well-formed entry of a settings sequence that has the key k
LastOf(settings, k) ==
    LET hits == { i \in WellFormed(settings) : KeyOf(settings[i]) = k }
    IN  settings[CHOOSE i \in hits : \A j \in hits : j <= i]

\* C13: a settings update with a non-empty sequence stores the entry of
\* every key that occurs in the sequence, leaves every other entry as it
\* was, and no step of the server removes a key of the store.
C13_UpsertOnlyGrows ==
    [][/\ DOMAIN WORKSPACE_SETTINGS \subseteq DOMAIN WORKSPACE_SETTINGS'
       /\ (IsInitializeStep /\ completed'.settings # <<>>) =>
             LET keys == KeysOf(completed'.settings)
             IN  /\ DOMAIN WORKSPACE_SETTINGS' =
                       DOMAIN WORKSPACE_SETTINGS \cup keys
                 /\ \A k \in keys :
                       WORKSPACE_SETTINGS'[k] =
                           Stored(LastOf(completed'.settings, k))
                 /\ \A k \in DOMAIN WORKSPACE_SETTINGS \ keys :
                       WORKSPACE_SETTINGS'[k] = WORKSPACE_SETTINGS[k]]_vars

\* C14: only a step of initialize changes the store or the global settings,
\* and the version probes initialize runs leave the store as the update
\* wrote it: lints and probes, under any backend, write nothing into it.
C14_OnlyUpdatesWrite ==
    /\ [][(WORKSPACE_SETTINGS' # WORKSPACE_SETTINGS
           \/ GLOBAL_SETTINGS' # GLOBAL_SETTINGS) => IsInitializeStep]_vars
    /\ [][IsInitializeStep =>
             WORKSPACE_SETTINGS' = completed'.written]_vars

\* a lint with the tool path of a stored entry that was probed for its
\* version, the entry's path list still the one the client sent
C14_Witness ==
    \E u \in Documents :
        /\ lints[u].count > 0
        /\ lints[u].backend = "path"
        /\ lints[u].settings.workspaceFS \in DOMAIN WORKSPACE_SETTINGS
        /\ lints[u].settings.workspaceFS \in DOMAIN versionRuns
        /\ versionRuns[lints[u].settings.workspaceFS].backend = "path"
        /\ WORKSPACE_SETTINGS[lints[u].settings.workspaceFS].path =
              <<"/opt/bin/flake8">>

\* a segment pattern against a segment: the wildcard * stands for any run
\* of characters of the segment
SegmentMatch(pattern, segment) ==
    \/ pattern = segment
    \/ pattern = "*.py" /\ segment \in {"h.py", "g.py", "file.py", "os.py"}
    \/ pattern = "h*.py" /\ segment = "h.py"

\* a glob pattern against a path: ** stands for any run of segments
RECURSIVE GlobMatch(_, _)
GlobMatch(pattern, path) ==
    IF pattern = <<>> THEN path = <<>>
    ELSE IF Head(pattern) = "**"
         THEN \/ GlobMatch(Tail(pattern), path)
              \/ path # <<>> /\ GlobMatch(pattern, Tail(path))
         ELSE /\ path # <<>>
              /\ SegmentMatch(Head(pattern), Head(path))
              /\ GlobMatch(Tail(pattern), Tail(path))

\* some pattern of the ignorePatterns of the settings matches the path
Ignored(settings, path) ==
    LET patterns == Get(settings, "ignorePatterns", <<>>)
    IN  \E i \in DOMAIN patterns : GlobMatch(patterns[i], path)

\* C15: an open or save of a document that a pattern of the ignorePatterns
\* of its workspace matches publishes the empty sequence; with no matching
\* pattern, or an empty list, the findings of the tool are published.
C15_IgnorePatterns ==
    (completed.kind = "lint" /\ completed.outcome = "ok") =>
        LET settings == lints[completed.uri].settings
        IN  IF Ignored(settings, to_fs_path(completed.uri))
            THEN published[completed.uri].diags = <<>>
            ELSE Len(published[completed.uri].diags) =
                     Len(MatchingLines(completed.stdout))

\* the real location of the document whose planning is examined
PlanReal == realpath(planIn.path)

\* it lies below the standard-library root /usr/lib
UnderStdlibRoot ==
    Len(PlanReal) >= 2 /\ PlanReal[1] = "usr" /\ PlanReal[2] = "lib"

\* the segments of the location
PlanRealSegments == { PlanReal[i] : i \in DOMAIN PlanReal }

\* C16: a file is skipped as a standard-library file exactly when its real
\* path lies under the standard-library root and no segment of it is
\* site-packages: not under /usr/lib/site-packages/, but under
\* /usr/lib/site-packages-backup/, and never outside of /usr/lib.
C16_StdlibClassification ==
    (planOut.done /\ planIn.uri.scheme = "file") =>
        /\ planOut.skip =
              (UnderStdlibRoot /\ SITE_PACKAGES \notin PlanRealSegments)
        /\ (PlanReal = <<"usr", "lib", SITE_PACKAGES, "m.py">>
               => ~planOut.skip)
        /\ (PlanReal = <<"usr", "lib", "site-packages-backup", "m.py">>
               => planOut.skip)
        /\ (~UnderStdlibRoot => ~planOut.skip)

\* /std/site-packages-backup/m.py, under the root through the link /std,
\* is skipped
C16_Witness ==
    /\ planOut.done
    /\ planIn.uri.scheme = "file"
    /\ planIn.path = <<"std", "site-packages-backup", "m.py">>
    /\ planOut.skip

\* C17 as claimed: a document with a segment site-packages under the
\* standard-library root gets no plan, and one under the root with
\* site-packages only inside a longer segment name gets one.
C17_SitePackagesSkipped ==
    (planOut.done /\ planIn.uri.scheme = "file" /\ UnderStdlibRoot) =>
        /\ (SITE_PACKAGES \in PlanRealSegments => planOut.skip)
        /\ ((SITE_PACKAGES \notin PlanRealSegments
             /\ "site-packages-backup" \in PlanRealSegments)
               => ~planOut.skip)

\* C17 amended: a document with a segment site-packages under the
\* standard-library root gets a plan (the tool is invoked), and one under
\* the root with site-packages only inside a longer segment name gets none
\* (it is skipped as a standard-library file).
C17_SitePackagesLinted ==
    (planOut.done /\ planIn.uri.scheme = "file" /\ UnderStdlibRoot) =>
        /\ (SITE_PACKAGES \in PlanRealSegments => ~planOut.skip)
        /\ ((SITE_PACKAGES \notin PlanRealSegments
             /\ "site-packages-backup" \in PlanRealSegments)
               => planOut.skip)

\* /pkgs/lib/m.py, in /usr/lib/site-packages through the link /pkgs, gets
\* a plan
C17_Witness ==
    /\ planOut.done
    /\ planIn.uri.scheme = "file"
    /\ planIn.path = <<"pkgs", "lib", "m.py">>
    /\ PlanReal = <<"usr", "lib", SITE_PACKAGES, "lib", "m.py">>
    /\ ~planOut.skip

\* the slots whose in-process run is inside its with statement
InProcessRuns ==
    { w \in Slots : pipelines[w].pc = "run" /\ pipelines[w].backend = "module" }

C19_OneWideningAtATime ==
    /\ Cardinality(InProcessRuns) <= 1
    /\ (InProcessRuns = {} => sys_path = SysPathAtStart)

\* a step in which an open or save ends by a failure
IsFaultStep ==
    /\ completed' # completed
    /\ completed'.kind = "lint"
    /\ completed'.outcome = "fault"

\* C20: an open or save in which the run or the parsing fails still ends:
\* its handler returns, the failure is logged at error level, the store
\* and the global settings stay as they were, and its slot is free for the
\* next event while the other handlers in flight are left as they were.
C20_FailureContained ==
    [][IsFaultStep =>
          /\ completed'.log = "Error"
          /\ UNCHANGED << WORKSPACE_SETTINGS, GLOBAL_SETTINGS >>
          /\ \E w \in Slots :
                /\ pipelines[w].pc \in {"run", "parse"}
                /\ pipelines'[w].pc = "idle"
                /\ \A v \in Slots \ {w} : pipelines'[v] = pipelines[v]]_vars

\* the parsing of the output of a run has failed on a stored entry without
\* its severity table; every slot is free
C20_Witness ==
    /\ completed.kind = "lint"
    /\ completed.outcome = "fault"
    /\ completed.log = "Error"
    /\ SubDir \in DOMAIN WORKSPACE_SETTINGS
    /\ ~HasKey(WORKSPACE_SETTINGS[SubDir], "severity")
    /\ completed.uri = DocViaRootLink
    /\ \A w \in Slots : pipelines[w].pc = "idle"

\* the backend the rule of the three branches gives for the settings
RuledBackend(settings) ==
    CASE Len(settings.path) > 0 -> "path"
      [] Len(settings.path) = 0 /\ Len(settings.interpreter) > 0
         /\ settings.interpreter[1] # sys_executable -> "rpc"
      [] Len(settings.path) = 0 /\ Len(settings.interpreter) = 0 -> "module"
      [] Len(settings.path) = 0 /\ Len(settings.interpreter) > 0
         /\ settings.interpreter[1] = sys_executable -> "module"

\* C22: every run, of a document and of a version probe, is under exactly
\* one backend, the one of the rule: the tool path when it is set, else
\* the RPC when the interpreter is set and is not the server's, else the
\* in-process run (an empty interpreter setting, or the server's own).
C22_BackendRule ==
    /\ \A u \in Documents :
          lints[u].count > 0 =>
              lints[u].backend = RuledBackend(lints[u].settings)
    /\ \A k \in DOMAIN versionRuns :
          versionRuns[k].backend = RuledBackend(versionRuns[k].settings)
    /\ \A w \in Slots :
          pipelines[w].pc = "run" =>
              pipelines[w].backend = RuledBackend(pipelines[w].settings)

\* a run in flight in-process for an empty interpreter setting, and the
\* probe of an entry with another interpreter made over the RPC
C22_Witness ==
    /\ \E w \in Slots :
          /\ pipelines[w].pc = "run"
          /\ pipelines[w].settings.interpreter = <<>>
          /\ pipelines[w].settings.path = <<>>
          /\ pipelines[w].backend = "module"
    /\ \E k \in DOMAIN versionRuns :
          /\ versionRuns[k].backend = "rpc"
          /\ versionRuns[k].settings.interpreter = <<"python">>

\* the handler that returned last ran the tool and the run returned
RunReturned == completed.kind = "lint" /\ "run" \in DOMAIN completed

\* C21: under every backend, the standard error text of a run that
\* returned is written to the log, with or without an exception beside
\* it in the response.
C21_StderrAlwaysLogged ==
    (RunReturned /\ completed.run.stderr # "") =>
        completed.run.stderr \in completed.run.logged

\* the argument vector the parts of a plan make, one after the other
ArgvInOrder(base, format, args, extra, file, use_stdin) ==
    base \o format \o args \o extra
    \o (IF use_stdin THEN <<"--stdin-display-name", file, "-">>
        ELSE <<file>>)

\* the positions of a sequence that hold a member of a set
PositionsOf(seq, set) == { i \in 1..Len(seq) : seq[i] \in set }

FormatDirective ==
    "--format='%(row)d,%(col)d,%(code).1s,%(code)s:%(text)s'"

\* C23: under every backend the argument vector of a document lint is the
\* base (the tool path, or the module name), the format directive, the
\* workspace arguments, the extra arguments of the caller, and then the
\* document path or the three stdin markers; the format directive stands
\* before every argument of the user.
C23_ArgvOrder ==
    (argvOut.done /\ ~argvOut.plan.skip) =>
        LET plan == argvOut.plan
            settings == plan.settings
            base == IF Len(settings.path) > 0 THEN settings.path
                    ELSE <<"flake8">>
            file == FsPathString[argvIn.document.path]
            user == Len(base) + 2 .. Len(base) + 1 + Len(settings.args)
                                     + Len(argvIn.extra_args)
        IN  /\ plan.argv = ArgvInOrder(base, <<FormatDirective>>,
                                       settings.args, argvIn.extra_args,
                                       file, argvIn.use_stdin)
            /\ plan.argv[Len(base) + 1] = FormatDirective
            /\ \A i \in user :
                  plan.argv[i]
                      \in { settings.args[j] : j \in 1..Len(settings.args) }
                          \cup { argvIn.extra_args[j] :
                                    j \in 1..Len(argvIn.extra_args) }
            /\ \A i \in PositionsOf(plan.argv, {FormatDirective}) :
                  \A j \in user : i < j

\* a lint over stdin with workspace arguments and extra arguments, under
\* the tool path backend, and its vector ends with the three markers
C23_Witness ==
    /\ argvOut.done
    /\ ~argvOut.plan.skip
    /\ argvIn.use_stdin
    /\ argvIn.extra_args # <<>>
    /\ argvOut.plan.settings.args # <<>>
    /\ argvOut.plan.backend = "path"
    /\ LET argv == argvOut.plan.argv
       IN  SubSeq(argv, Len(argv) - 2, Len(argv))
               = <<"--stdin-display-name",
                   FsPathString[argvIn.document.path], "-">>

\* C24: the ancestor walk ends for every document path and every store:
\* a step returns a key of the store or puts the parent, one component
\* shorter, in the place of the candidate, it stops when the candidate is
\* its own parent, and it makes no more membership tests than the path
\* has components.
C24_WalkTerminates ==
    /\ <>(walkOut.pc = "done")
    /\ [](Len(walkOut.tested) <= Len(walkIn.path))
    /\ [][walkOut.pc = "loop" =>
            \/ /\ walkOut'.pc = "done"
               /\ walkOut'.result \in walkIn.workspaces
            \/ /\ walkOut'.pc = "done"
               /\ walkOut'.result = None
               /\ walkOut.document_workspace
                      = Parent(walkOut.document_workspace)
            \/ /\ walkOut'.pc = "loop"
               /\ walkOut'.document_workspace
                      = Parent(walkOut.document_workspace)
               /\ Len(walkOut'.document_workspace)
                      = Len(walkOut.document_workspace) - 1]_vars
    /\ [](walkOut.pc = "done" =>
             walkOut.result = AncestorWalk(walkIn.path, walkIn.workspaces))

\* a walk that found no key after one test for each component of a path
\* reached through a link
C24_Witness ==
    /\ walkOut.pc = "done"
    /\ walkOut.result = None
    /\ walkIn.path = <<"deep", "h.py">>
    /\ Len(walkOut.tested) = Len(walkIn.path)

\* C25: the walk tests every ancestor directory of the document, the
\* filesystem root included, so that a store with a workspace at the root
\* gives the root as the owner of a document that no deeper workspace of
\* the store encloses.
C25_RootWorkspaceOwns ==
    walkOut.pc = "done" =>
        LET real == realpath(walkIn.path)
            deeper == { w \in walkIn.workspaces :
                          w # Root /\ IsUnder(real, w) }
        IN  /\ walkOut.result = None =>
                \A n \in 0..(Len(walkIn.path) - 1) :
                    \E i \in 1..Len(walkOut.tested) :
                        walkOut.tested[i] = SubSeq(walkIn.path, 1, n)
            /\ (Root \in walkIn.workspaces /\ deeper = {}) =>
                walkOut.result = Root

\* C26: after the close of a document, with no open or save of it since,
\* no publish gives the document diagnostics that are not empty: an
\* analysis in flight at the close does not fill them again.
C26_ClosedStaysEmpty ==
    \A u \in closed : published[u].diags = <<>>

\* C26, amended: after the close of a document, with no open or save of
\* it since, the close publishes the empty sequence and the only publish
\* that gives the document diagnostics that are not empty is that of an
\* analysis of it that was in flight when the close was handled (every
\* pipeline of a closed document was started before the close) and that
\* completes: the diagnostics are those of the analysis completed last.
C26_OnlyInFlightRepopulates ==
    [][\A u \in Documents :
          u \in closed' =>
              \/ published'[u].diags = <<>>
              \/ published'[u] = published[u]
              \/ /\ u \in closed
                 /\ \E w \in Slots :
                       /\ pipelines[w].pc = "parse"
                       /\ pipelines[w].uri = u
                       /\ pipelines'[w].pc = "idle"
                       /\ completed'.kind = "lint"
                       /\ completed'.uri = u
                       /\ published'[u].diags = completed'.diags]_vars

\* a closed document whose diagnostics the analysis in flight at the
\* close has filled again
C26_Witness ==
    \E u \in closed :
        /\ published[u].diags # <<>>
        /\ completed.kind = "lint"
        /\ completed.uri = u
        /\ completed.outcome = "ok"
        /\ \A w \in Slots : pipelines[w].pc = "idle"

\* C27: in a pipeline of an open or a save, the severity table that turns
\* the output of the tool into diagnostics is that of the settings
\* snapshot the arguments and the working directory of the run came from,
\* whatever settings update the store takes while the pipeline is in
\* flight.
C27_SeverityOfSnapshot ==
    [][\A w \in Slots :
          (/\ pipelines[w].pc = "parse"
           /\ pipelines'[w].pc = "idle"
           /\ completed'.outcome = "ok") =>
              /\ HasKey(pipelines[w].settings, "severity")
              /\ published'[pipelines[w].uri].diags =
                     _parse_output_using_regex(
                         pipelines[w].stdout,
                         pipelines[w].settings.severity)]_vars

====
